---- MODULE Spec2Model ----
(***************************************************************************)
(* Scene segmentation of the YouDescribeX video pipeline.                  *)
(*                                                                         *)
(* The segmentation script reads the enriched per-frame table written by   *)
(* the similarity script, parses every row into `list` and scans it once   *)
(* with SceneSegmentation(10, 0.75), pushing one [start, end, description] *)
(* record into `data` whenever one of its two boundary rules fires.        *)
(*                                                                         *)
(* Numbers: similarities are modelled in hundredths (0.75 is 75, 0.1 is    *)
(* 10), timestamps in whole seconds.  A JavaScript value is a record       *)
(* [t, n, s]: its type tag, its numeric value and its text.                *)
(***************************************************************************)
EXTENDS Integers, Sequences, FiniteSets, TLC

VARIABLES results, list, pc, scan, data, output, frames, outfile, simpc

vars == <<results, list, pc, scan, data, output, frames, outfile, simpc>>

\* The state of the similarity script.
simvars == <<frames, outfile, simpc>>

---------------------------------------------------------------------------
(* Bounds of the model. *)

\* Largest number of rows of the enriched table.
MaxRows == 4

\* The timestamps a row may carry (seconds).
TimeStamps == {5, 12, 20, 30}

\* Largest number of frames of the feature table.
MaxFrames == 6

---------------------------------------------------------------------------
(* JavaScript values. *)

Num(n) == [t |-> "number", n |-> n, s |-> ""]
Str(s) == [t |-> "string", n |-> 0, s |-> s]
NaN == [t |-> "NaN", n |-> 0, s |-> ""]
Undefined == [t |-> "undefined", n |-> 0, s |-> ""]

IsNum(v) == v.t = "number"

\* a - b
Sub(a, b) == IF IsNum(a) /\ IsNum(b) THEN Num(a.n - b.n) ELSE NaN

\* a < b, a > b, a >= b on numbers; every comparison with NaN, undefined or a
\* non-numeric string is false.
Lt(a, b) == IsNum(a) /\ IsNum(b) /\ a.n < b.n
Gt(a, b) == IsNum(a) /\ IsNum(b) /\ a.n > b.n
Ge(a, b) == IsNum(a) /\ IsNum(b) /\ a.n >= b.n

\* Text of a number in hundredths or seconds, as string concatenation gives it.
NumText(n) == IF n < 0 THEN "-" \o ToString(0 - n) ELSE ToString(n)

\* The text a value turns into when it is concatenated to a string.
ToText(v) ==
    CASE v.t = "string" -> v.s
      [] v.t = "number" -> NumText(v.n)
      [] v.t = "NaN" -> "NaN"
      [] OTHER -> "undefined"

\* v == "text" (loose equality of a cell with a non-numeric string literal)
EqText(v, text) == v.t = "string" /\ v.s = text

\* parseFloat of a CSV cell: numeric text gives its number, anything else NaN.
ParseFloat(c) == IF IsNum(c) THEN c ELSE NaN

---------------------------------------------------------------------------
(* Parameters of the one call SceneSegmentation(10, 0.75). *)

sceneTimeLimit == 10
threshold == 75

---------------------------------------------------------------------------
(* The enriched table, as the CSV reader hands it over: one sequence of    *)
(* cells per row, in the column order frame, timestamp, Line1, Line2,      *)
(* Similarity, avgone, avgtwo, iskeyFrame, description.  Cell(row, j) is   *)
(* the cell at the source's 0-based position j.                            *)

Cell(row, j) == IF j + 1 \in DOMAIN row THEN row[j + 1] ELSE Undefined

\* The description cell of the k-th row: rows carry distinct captions, the
\* second row an empty cell.
DescAt(k) == IF k = 1 THEN "a dog" ELSE IF k = 2 THEN "" ELSE "c" \o ToString(k)

\* Similarity, avgone, avgtwo and iskeyFrame of a row: an undefined adjacent
\* similarity on a key frame; all three windows low (0.1/0.2/0.1) on a key
\* frame and on another frame; adjacent similarity low with one wide window
\* at the threshold; adjacent similarity at the threshold on a key frame.
RowKinds == { <<Str("SKIP"), Num(20), Num(10), "True">>,
              <<Num(10), Num(20), Num(10), "True">>,
              <<Num(10), Num(20), Num(10), "False">>,
              <<Num(10), Num(20), Num(75), "False">>,
              <<Num(75), Num(20), Num(10), "True">> }

\* The rows that may stand at position k when the row before is at time `last`.
RowsAt(k, last) ==
    { <<Num(k + 1), Num(ts), Num(k + 1), Num(k + 2), rk[1], rk[2], rk[3],
        Str(rk[4]), Str(DescAt(k))>> :
        ts \in {u \in TimeStamps : u >= last}, rk \in RowKinds }

LastTime(table) == IF table = <<>> THEN 0 ELSE table[Len(table)][2].n

---------------------------------------------------------------------------
(* The "end" handler, first part: every row of `results` becomes a row of  *)
(* `list`.                                                                 *)

ParseCell(j, c) ==
    IF ~EqText(c, "")
    THEN IF j = 4
         THEN IF EqText(c, "SKIP") THEN c ELSE ParseFloat(c)
         ELSE IF j = 7 \/ j = 8
              THEN Str(ToText(c))
              ELSE ParseFloat(c)
    ELSE Num(0)

ParseRow(row) == [j \in DOMAIN row |-> ParseCell(j - 1, row[j])]

---------------------------------------------------------------------------
(* SceneSegmentation: the state of the scan and what one row does to it.   *)

averagecheck(averageone, averagetwo, thr) ==
    Lt(averageone, thr) /\ Lt(averagetwo, thr)

\* if (list[i][7] == "True") description = description + "\n" + list[i][8]
Accumulate(st, row) ==
    IF EqText(Cell(row, 7), "True")
    THEN [st EXCEPT !.description = st.description \o "\n" \o ToText(Cell(row, 8))]
    ELSE st

\* The low-similarity rule without the advance of currentSceneTimeStamp.
LowSimilarityRule_NoAdvance(st, row) ==
    IF /\ ~EqText(Cell(row, 4), "SKIP")
       /\ Lt(Cell(row, 4), Num(threshold))
       /\ averagecheck(Cell(row, 5), Cell(row, 6), Num(threshold))
       /\ Gt(Sub(Cell(row, 1), st.currentSceneTimeStamp), Num(sceneTimeLimit))
    THEN [st EXCEPT
            !.scenesegments = Append(@, Cell(row, 1)),
            !.data = Append(@, <<st.currentSceneTimeStamp, Cell(row, 1), st.description>>),
            !.description = ""]
    ELSE st

\* The low-similarity rule with the time check >= instead of >.
LowSimilarityRule_AtLimit(st, row) ==
    IF /\ ~EqText(Cell(row, 4), "SKIP")
       /\ Lt(Cell(row, 4), Num(threshold))
       /\ averagecheck(Cell(row, 5), Cell(row, 6), Num(threshold))
       /\ Ge(Sub(Cell(row, 1), st.currentSceneTimeStamp), Num(sceneTimeLimit))
    THEN [st EXCEPT
            !.scenesegments = Append(@, Cell(row, 1)),
            !.data = Append(@, <<st.currentSceneTimeStamp, Cell(row, 1), st.description>>),
            !.description = "",
            !.currentSceneTimeStamp = Cell(row, 1)]
    ELSE st

\* The low-similarity rule without its time check.
LowSimilarityRule_NoTimeCheck(st, row) ==
    IF /\ ~EqText(Cell(row, 4), "SKIP")
       /\ Lt(Cell(row, 4), Num(threshold))
       /\ averagecheck(Cell(row, 5), Cell(row, 6), Num(threshold))
    THEN [st EXCEPT
            !.scenesegments = Append(@, Cell(row, 1)),
            !.data = Append(@, <<st.currentSceneTimeStamp, Cell(row, 1), st.description>>),
            !.description = "",
            !.currentSceneTimeStamp = Cell(row, 1)]
    ELSE st

\* The low-similarity rule that takes a similarity equal to the threshold for
\* a low one.
LowSimilarityRule_AtThreshold(st, row) ==
    IF /\ ~EqText(Cell(row, 4), "SKIP")
       /\ ~Gt(Cell(row, 4), Num(threshold))
       /\ averagecheck(Cell(row, 5), Cell(row, 6), Num(threshold))
       /\ Gt(Sub(Cell(row, 1), st.currentSceneTimeStamp), Num(sceneTimeLimit))
    THEN [st EXCEPT
            !.scenesegments = Append(@, Cell(row, 1)),
            !.data = Append(@, <<st.currentSceneTimeStamp, Cell(row, 1), st.description>>),
            !.description = "",
            !.currentSceneTimeStamp = Cell(row, 1)]
    ELSE st

\* The low-similarity rule.
LowSimilarityRule(st, row) ==
    IF /\ ~EqText(Cell(row, 4), "SKIP")
       /\ Lt(Cell(row, 4), Num(threshold))
       /\ averagecheck(Cell(row, 5), Cell(row, 6), Num(threshold))
       /\ Gt(Sub(Cell(row, 1), st.currentSceneTimeStamp), Num(sceneTimeLimit))
    THEN [st EXCEPT
            !.scenesegments = Append(@, Cell(row, 1)),
            !.data = Append(@, <<st.currentSceneTimeStamp, Cell(row, 1), st.description>>),
            !.description = "",
            !.currentSceneTimeStamp = Cell(row, 1)]
    ELSE st

\* The skip-run rule that leaves firstSkip set after it has fired.
SkipRunRule_NoClear(st, row) ==
    IF ~EqText(Cell(row, 4), "SKIP") /\ st.firstSkip
    THEN IF Ge(Sub(Cell(row, 1), st.skiptimestamp), Num(sceneTimeLimit))
         THEN [st EXCEPT
                 !.scenesegments = Append(@, Cell(row, 1)),
                 !.data = Append(@, <<st.currentSceneTimeStamp, Cell(row, 1), st.description>>),
                 !.description = " ",
                 !.currentSceneTimeStamp = Cell(row, 1)]
         ELSE [st EXCEPT !.firstSkip = FALSE]
    ELSE st

\* The skip-run rule with the time check > instead of >=.
SkipRunRule_Strict(st, row) ==
    IF ~EqText(Cell(row, 4), "SKIP") /\ st.firstSkip
    THEN IF Gt(Sub(Cell(row, 1), st.skiptimestamp), Num(sceneTimeLimit))
         THEN [st EXCEPT
                 !.scenesegments = Append(@, Cell(row, 1)),
                 !.data = Append(@, <<st.currentSceneTimeStamp, Cell(row, 1), st.description>>),
                 !.description = " ",
                 !.currentSceneTimeStamp = Cell(row, 1),
                 !.firstSkip = FALSE]
         ELSE [st EXCEPT !.firstSkip = FALSE]
    ELSE st

\* The skip-run rule that restarts the scene at the start of the skip run.
SkipRunRule_StartAtSkip(st, row) ==
    IF ~EqText(Cell(row, 4), "SKIP") /\ st.firstSkip
    THEN IF Ge(Sub(Cell(row, 1), st.skiptimestamp), Num(sceneTimeLimit))
         THEN [st EXCEPT
                 !.scenesegments = Append(@, Cell(row, 1)),
                 !.data = Append(@, <<st.currentSceneTimeStamp, Cell(row, 1), st.description>>),
                 !.description = " ",
                 !.currentSceneTimeStamp = st.skiptimestamp,
                 !.firstSkip = FALSE]
         ELSE [st EXCEPT !.firstSkip = FALSE]
    ELSE st

\* The skip-run rule that clears firstSkip only when it has fired.
SkipRunRule_ClearOnFire(st, row) ==
    IF ~EqText(Cell(row, 4), "SKIP") /\ st.firstSkip
    THEN IF Ge(Sub(Cell(row, 1), st.skiptimestamp), Num(sceneTimeLimit))
         THEN [st EXCEPT
                 !.scenesegments = Append(@, Cell(row, 1)),
                 !.data = Append(@, <<st.currentSceneTimeStamp, Cell(row, 1), st.description>>),
                 !.description = " ",
                 !.currentSceneTimeStamp = Cell(row, 1),
                 !.firstSkip = FALSE]
         ELSE st
    ELSE st

\* The skip-run rule that leaves currentSceneTimeStamp where it was.
SkipRunRule_NoAdvance(st, row) ==
    IF ~EqText(Cell(row, 4), "SKIP") /\ st.firstSkip
    THEN IF Ge(Sub(Cell(row, 1), st.skiptimestamp), Num(sceneTimeLimit))
         THEN [st EXCEPT
                 !.scenesegments = Append(@, Cell(row, 1)),
                 !.data = Append(@, <<st.currentSceneTimeStamp, Cell(row, 1), st.description>>),
                 !.description = " ",
                 !.firstSkip = FALSE]
         ELSE [st EXCEPT !.firstSkip = FALSE]
    ELSE st

\* The skip-run rule that is evaluated on SKIP rows too.
SkipRunRule_OnSkip(st, row) ==
    IF st.firstSkip
    THEN IF Ge(Sub(Cell(row, 1), st.skiptimestamp), Num(sceneTimeLimit))
         THEN [st EXCEPT
                 !.scenesegments = Append(@, Cell(row, 1)),
                 !.data = Append(@, <<st.currentSceneTimeStamp, Cell(row, 1), st.description>>),
                 !.description = " ",
                 !.currentSceneTimeStamp = Cell(row, 1),
                 !.firstSkip = FALSE]
         ELSE [st EXCEPT !.firstSkip = FALSE]
    ELSE st

\* The skip-run rule.
SkipRunRule(st, row) ==
    IF ~EqText(Cell(row, 4), "SKIP") /\ st.firstSkip
    THEN IF Ge(Sub(Cell(row, 1), st.skiptimestamp), Num(sceneTimeLimit))
         THEN [st EXCEPT
                 !.scenesegments = Append(@, Cell(row, 1)),
                 !.data = Append(@, <<st.currentSceneTimeStamp, Cell(row, 1), st.description>>),
                 !.description = " ",
                 !.currentSceneTimeStamp = Cell(row, 1),
                 !.firstSkip = FALSE]
         ELSE [st EXCEPT !.firstSkip = FALSE]
    ELSE st

\* Skip detection that takes the timestamp of every SKIP row.
SkipDetection_Retrigger(st, row) ==
    IF EqText(Cell(row, 4), "SKIP")
    THEN [st EXCEPT !.firstSkip = TRUE, !.skiptimestamp = Cell(row, 1)]
    ELSE st

\* Skip detection.
SkipDetection(st, row) ==
    IF EqText(Cell(row, 4), "SKIP") /\ ~st.firstSkip
    THEN [st EXCEPT !.firstSkip = TRUE, !.skiptimestamp = Cell(row, 1)]
    ELSE st

\* The loop body with the description appended after the rules.
LoopBody_AccumulateLast(st, row) ==
    Accumulate(SkipDetection(SkipRunRule(LowSimilarityRule(st, row), row), row), row)

\* The loop body with the skip-run rule as the else branch of the
\* low-similarity rule.
LoopBody_RuleThreeElse(st, row) ==
    SkipDetection(
        IF LowSimilarityRule(Accumulate(st, row), row) # Accumulate(st, row)
        THEN LowSimilarityRule(Accumulate(st, row), row)
        ELSE SkipRunRule(Accumulate(st, row), row),
        row)

\* One pass of the loop body over a row.
LoopBody(st, row) ==
    SkipDetection(SkipRunRule(LowSimilarityRule(Accumulate(st, row), row), row), row)

\* The locals of SceneSegmentation when the loop is entered, with the records
\* already in the global `data`.
LoopEntry(data0) ==
    [currentSceneTimeStamp |-> Num(0),
     firstSkip |-> FALSE,
     skiptimestamp |-> Undefined,
     description |-> "",
     scenesegments |-> <<>>,
     data |-> data0]

\* The for loop over the first k rows: the states it passes through, the
\* (j+1)-th being the state after j iterations.
RECURSIVE LoopStates(_, _, _)
LoopStates(rows, k, data0) ==
    IF k = 0
    THEN << LoopEntry(data0) >>
    ELSE LET before == LoopStates(rows, k - 1, data0)
         IN Append(before, LoopBody(before[k], rows[k]))

\* SceneSegmentation with a closing record for the tail after the loop.
SceneSegmentation_Flush(rows, data0) ==
    LET states == LoopStates(rows, Len(rows), data0)
        last == states[Len(states)]
    IN IF rows = <<>>
       THEN states
       ELSE Append(states,
                   [last EXCEPT !.data = Append(@, <<last.currentSceneTimeStamp,
                                                      Cell(rows[Len(rows)], 1),
                                                      last.description>>)])

\* SceneSegmentation(sceneTimeLimit, threshold) over `rows`.
SceneSegmentation(rows, data0) == LoopStates(rows, Len(rows), data0)

---------------------------------------------------------------------------
(* The similarity script (csv.js).  A frame is one row of "Captions and    *)
(* Objects.csv": frameindex, timestamp, iskeyFrame, description and the    *)
(* feature cells.  It writes one row of outputavg.csv per interior frame.  *)

Null == [t |-> "null", n |-> 0, s |-> ""]
Thrown == [t |-> "throw", n |-> 0, s |-> ""]

\* isNaN(v): NaN and undefined convert to NaN, null converts to 0.
IsNaN(v) == v.t = "NaN" \/ v.t = "undefined" \/ (v.t = "string" /\ v.s # "")

\* The feature cells a frame may carry; an empty cell stands for 0.
FeatureCells == { <<Str(""), Str("")>>, <<Num(1), Str("")>>,
                  <<Str(""), Num(1)>>, <<Num(1), Num(1)>> }

\* The frame with 0-based index k: six seconds apart, every other frame a key
\* frame, each with its own caption.
FrameAt(k, cells) ==
    << Num(k), Num(6 * k), Str(IF k % 2 = 0 THEN "True" ELSE "False"),
       Str("f" \o ToString(k)) >> \o cells

\* The parse loop of the "end" handler: the columns of one frame.
ParseFeature(c) == IF ~EqText(c, "") THEN ParseFloat(c) ELSE Num(0)

ParseFrame(row) ==
    [frameindex |-> ParseFloat(Cell(row, 0)),
     timestamp |-> ParseFloat(Cell(row, 1)),
     iskeyFrame |-> Cell(row, 2),
     description |-> Cell(row, 3),
     features |-> [j \in 1..(Len(row) - 4) |-> ParseFeature(row[j + 4])]]

\* compute-cosine-similarity on two vectors, in hundredths rounded down:
\* dot(x, y) / (l2norm(x) * l2norm(y)); it throws on vectors of different
\* lengths, returns null on empty ones and NaN when a norm is zero.
RECURSIVE Dot(_, _, _)
Dot(x, y, j) == IF j = 0 THEN 0 ELSE Dot(x, y, j - 1) + x[j].n * y[j].n

\* The quotient dot / sqrt(nx * ny) in hundredths, rounded down.
Quotient(dot, nx, ny) ==
    CHOOSE c \in 0..100 :
      /\ c * c * nx * ny <= 10000 * dot * dot
      /\ (c + 1) * (c + 1) * nx * ny > 10000 * dot * dot

cosine(x, y) ==
    IF Len(x) # Len(y) THEN Thrown
    ELSE IF Len(x) = 0 THEN Null
    ELSE IF \E j \in 1..Len(x) : ~IsNum(x[j]) \/ ~IsNum(y[j]) THEN NaN
    ELSE LET products == CHOOSE t \in { << Dot(x, y, Len(x)), Dot(x, x, Len(x)),
                                           Dot(y, y, Len(y)) >> } : TRUE
         IN IF products[2] * products[3] = 0 THEN NaN
            ELSE Num(Quotient(products[1], products[2], products[3]))

\* similarity(list[a], list[b]) for 0-based a and b; an index outside the
\* list reads undefined, which the library rejects with an exception.
similarity(fr, a, b) ==
    IF a + 1 \in DOMAIN fr /\ b + 1 \in DOMAIN fr
    THEN cosine(fr[a + 1].features, fr[b + 1].features)
    ELSE Thrown

\* The loop that stops one index early.
LoopIndices_Short(n) == { i \in 2..n : i < n - 2 }

\* The loop that starts at index 1.
LoopIndices_FromOne(n) == { i \in 1..n : i < n - 1 }

\* The loop that runs up to the last index.
LoopIndices_ToEnd(n) == { i \in 2..n : i < n }

\* for (var i = 2; i < list.length - 1; i += 1): the indices the loop visits.
LoopIndices(n) == { i \in 2..n : i < n - 1 }

\* The wide windows computed on one row fewer, and on one row more.
WideComputed_Tight(i, n) == i < n - 4
WideComputed_Loose(i, n) == i < n - 2

\* if (i < list.length - 3): the wide windows are computed.
WideComputed(i, n) == i < n - 3

\* The first wide similarity with 1.0 where it is not computed, and with the
\* sentinel where it is undefined.
WideOne_Default(fr, i) ==
    IF WideComputed(i, Len(fr)) THEN similarity(fr, i - 1, i + 2) ELSE Num(100)
WideOne_Sentinel(fr, i) ==
    IF WideComputed(i, Len(fr))
    THEN IF IsNaN(similarity(fr, i - 1, i + 2))
         THEN Str("SKIP") ELSE similarity(fr, i - 1, i + 2)
    ELSE Num(0)

\* The three similarities of iteration i.
Adjacent(fr, i) == similarity(fr, i, i + 1)
WideOne(fr, i) == IF WideComputed(i, Len(fr)) THEN similarity(fr, i - 1, i + 2) ELSE Num(0)
WideTwo(fr, i) == IF WideComputed(i, Len(fr)) THEN similarity(fr, i - 2, i + 3) ELSE Num(0)

\* The adjacent similarity pushed as it was computed.
Sentinel_None(v) == v

\* if (isNaN(s)) s = "SKIP"
Sentinel(v) == IF IsNaN(v) THEN Str("SKIP") ELSE v

\* data.push([...]) of iteration i.
EnrichedRow(fr, i) ==
    << fr[i + 1].frameindex, fr[i + 1].timestamp, Num(i), Num(i + 1),
       Sentinel(Adjacent(fr, i)), WideOne(fr, i), WideTwo(fr, i),
       fr[i + 1].iskeyFrame, fr[i + 1].description >>

\* An iteration that ends in an exception of the library: one of the
\* similarities it pushes was never returned.
Throws(row) == Thrown \in { row[5], row[6], row[7] }

\* The rows the loop has pushed when it ends, in the order of the indices.
SimilarityRows(fr) ==
    [k \in 1..Cardinality(LoopIndices(Len(fr))) |-> EnrichedRow(fr, k + 1)]

\* A value as the CSV writer prints it and the CSV reader returns it.
WriteCell(v) ==
    CASE v.t = "NaN" -> Str("NaN")
      [] v.t = "null" -> Str("")
      [] v.t = "undefined" -> Str("")
      [] OTHER -> v

WriteRows(rows) ==
    [k \in DOMAIN rows |-> [j \in DOMAIN rows[k] |-> WriteCell(rows[k][j])]]

---------------------------------------------------------------------------
(* The program.                                                            *)
(*   results  the rows read so far                                         *)
(*   list     the parsed rows                                              *)
(*   scan     the states of the loop of SceneSegmentation, scan[j + 1]     *)
(*            being its locals and `data` after j iterations               *)
(*   data     the global array the records are pushed to                   *)
(*   output   the rows handed to the CSV writer                            *)

Init ==
    /\ results = <<>>
    /\ list = <<>>
    /\ pc = "read"
    /\ scan = <<>>
    /\ data = <<>>
    /\ output = <<>>
    /\ frames = <<>>
    /\ outfile = <<>>
    /\ simpc = "read"

\* The "data" handler: the reader hands over the next row of the table.
OnData ==
    /\ pc = "read"
    /\ Len(results) < MaxRows
    /\ \E row \in RowsAt(Len(results) + 1, LastTime(results)) :
          results' = Append(results, row)
    /\ UNCHANGED <<list, pc, scan, data, output>>
    /\ UNCHANGED simvars

\* The "end" handler: the rows are parsed into `list`, SceneSegmentation(10,
\* 0.75) scans them and the records it returns are written out.
OnEnd ==
    /\ pc = "read"
    /\ \E parsed \in { [k \in DOMAIN results |-> ParseRow(results[k])] } :
         \E states \in { SceneSegmentation(parsed, data) } :
            /\ list' = parsed
            /\ scan' = states
            /\ data' = states[Len(states)].data
            /\ output' = states[Len(states)].data
    /\ pc' = "done"
    /\ UNCHANGED results
    /\ UNCHANGED simvars

Next == OnData \/ OnEnd

Spec == Init /\ [][Next]_vars

\* The "data" handler on a key-frame row that ends after the seventh cell:
\* the key frame flag and the description are missing.
OnShortData ==
    /\ pc = "read"
    /\ Len(results) < MaxRows
    /\ \E row \in RowsAt(Len(results) + 1, LastTime(results)) :
          /\ Cell(row, 7) = Str("True")
          /\ Cell(row, 4) # Str("SKIP")
          /\ results' = Append(results, SubSeq(row, 1, 7))
    /\ UNCHANGED <<list, pc, scan, data, output>>
    /\ UNCHANGED simvars

\* SceneSegmentation(10, 0.75) called once more on the same `list`: the
\* function starts from fresh locals but pushes on the module's `data`,
\* which still holds the records of the first call, and returns it.
CallAgain ==
    /\ pc = "done"
    /\ \E states \in { SceneSegmentation(list, data) } :
          /\ scan' = states
          /\ data' = states[Len(states)].data
    /\ pc' = "again"
    /\ UNCHANGED <<results, list, output>>
    /\ UNCHANGED simvars

NextTwice == OnData \/ OnEnd \/ CallAgain

\* The segmentation script followed by a second call of its function.
SpecTwice == Init /\ [][NextTwice]_vars

NextMalformed == OnData \/ OnShortData \/ OnEnd

\* The segmentation script on tables that may hold rows with missing cells.
SpecMalformed == Init /\ [][NextMalformed]_vars

---------------------------------------------------------------------------
(* The similarity script as a program.                                     *)
(*   frames   the rows of the feature table read so far                    *)
(*   outfile  the rows written to outputavg.csv                            *)
(*   simpc    "read", then "done" (file written) or "error" (exception)    *)

segvars == <<results, list, pc, scan, data, output>>

\* The "data" handler of csv.js: the next frame of the feature table.
OnFrame ==
    /\ simpc = "read"
    /\ Len(frames) < MaxFrames
    /\ \E cells \in FeatureCells :
          frames' = Append(frames, FrameAt(Len(frames), cells))
    /\ UNCHANGED <<outfile, simpc>>
    /\ UNCHANGED segvars

\* The "end" handler of csv.js: parse, similarity loop, write.  An exception
\* of the library ends the handler before anything is written.
OnFramesEnd ==
    /\ simpc = "read"
    /\ \E rows \in { SimilarityRows([k \in DOMAIN frames |-> ParseFrame(frames[k])]) } :
         IF \E k \in DOMAIN rows : Throws(rows[k])
         THEN /\ simpc' = "error"
              /\ outfile' = <<>>
         ELSE /\ simpc' = "done"
              /\ outfile' = WriteRows(rows)
    /\ UNCHANGED frames
    /\ UNCHANGED segvars

NextSim == OnFrame \/ OnFramesEnd

SpecSim == Init /\ [][NextSim]_vars

\* The "data" handler of csv.js on a row that is one feature cell short.
OnShortFrame ==
    /\ simpc = "read"
    /\ Len(frames) < MaxFrames
    /\ frames' = Append(frames, FrameAt(Len(frames), <<Num(1)>>))
    /\ UNCHANGED <<outfile, simpc>>
    /\ UNCHANGED segvars

NextSimMalformed == OnFrame \/ OnShortFrame \/ OnFramesEnd

\* The "data" handler of the segmentation script when it reads the table the
\* similarity script has written: the next row of outputavg.csv.
OnEnrichedData ==
    /\ simpc = "done"
    /\ pc = "read"
    /\ Len(results) < Len(outfile)
    /\ results' = Append(results, outfile[Len(results) + 1])
    /\ UNCHANGED <<list, pc, scan, data, output>>
    /\ UNCHANGED simvars

\* The "end" handler of the segmentation script once the whole of
\* outputavg.csv has been read.
OnEnrichedEnd ==
    /\ simpc = "done"
    /\ results = outfile
    /\ OnEnd

NextPipeline == OnFrame \/ OnFramesEnd \/ OnEnrichedData \/ OnEnrichedEnd

\* The two scripts one after the other: csv.js writes outputavg.csv and the
\* segmentation script reads it.
SpecPipeline == Init /\ [][NextPipeline]_vars

\* The similarity script on tables that may hold rows of the wrong length.
SpecSimMalformed == Init /\ [][NextSimMalformed]_vars

---------------------------------------------------------------------------
(* Vocabulary of the properties: row k of the enriched table, the state    *)
(* the scan is in before and after it, and the two boundary rules as the   *)
(* design states them.                                                     *)

Scanned == pc = "done"

timestamp(k) == Cell(list[k], 1).n
IsSKIP(k) == Cell(list[k], 4) = Str("SKIP")
simAdjacent(k) == Cell(list[k], 4).n
simWide1(k) == Cell(list[k], 5).n
simWide2(k) == Cell(list[k], 6).n
isKeyFrame(k) == Cell(list[k], 7) = Str("True")
descriptionOf(k) == ToText(Cell(list[k], 8))

Before(k) == scan[k]
After(k) == scan[k + 1]
currentSceneStart(st) == st.currentSceneTimeStamp.n
skipRunStart(st) == st.skiptimestamp.n

\* pendingDescription when the rules are evaluated for row k.
Pending(k) ==
    IF isKeyFrame(k)
    THEN Before(k).description \o "\n" \o descriptionOf(k)
    ELSE Before(k).description

\* The records row k emits, in order.
Emitted(k) == SubSeq(After(k).data, Len(Before(k).data) + 1, Len(After(k).data))

SceneRecord(start, end, text) == <<Num(start), Num(end), text>>
startTime(rec) == rec[1].n
endTime(rec) == rec[2].n

AllLow(k) ==
    /\ ~IsSKIP(k)
    /\ simAdjacent(k) < threshold
    /\ simWide1(k) < threshold
    /\ simWide2(k) < threshold

\* The condition of rule 2 and of rule 3 on row k, in the state before it.
Rule2Holds(k) ==
    AllLow(k) /\ timestamp(k) - currentSceneStart(Before(k)) > sceneTimeLimit
Rule3Holds(k) ==
    /\ ~IsSKIP(k)
    /\ Before(k).firstSkip
    /\ timestamp(k) - skipRunStart(Before(k)) >= sceneTimeLimit

---------------------------------------------------------------------------
\* C1: on every row on which rule 2's condition holds, the record
\* (currentSceneStart, r.timestamp, pendingDescription) is emitted,
\* pendingDescription becomes empty and currentSceneStart becomes
\* r.timestamp (rule 3, when it fires on the same row, then emits its own
\* record from these updated values); a table of the single row
\* 12 / 0.1 / 0.2 / 0.1 yields exactly the record (0, 12, ...) and leaves
\* currentSceneStart = 12.
C1_Rule2Emits ==
    Scanned =>
      /\ \A k \in 1..Len(list) :
           Rule2Holds(k) =>
             /\ Len(Emitted(k)) >= 1
             /\ Emitted(k)[1] =
                  SceneRecord(currentSceneStart(Before(k)), timestamp(k), Pending(k))
             /\ currentSceneStart(After(k)) = timestamp(k)
             /\ \/ Len(Emitted(k)) = 1 /\ After(k).description = ""
                \/ /\ Len(Emitted(k)) = 2
                   /\ Emitted(k)[2] = SceneRecord(timestamp(k), timestamp(k), "")
      /\ ( /\ Len(list) = 1
           /\ timestamp(1) = 12
           /\ ~IsSKIP(1) /\ simAdjacent(1) = 10 /\ simWide1(1) = 20 /\ simWide2(1) = 10 )
         => /\ Len(output) = 1
            /\ startTime(output[1]) = 0 /\ endTime(output[1]) = 12
            /\ currentSceneStart(After(1)) = 12

\* The scenario of C1 has been scanned.
C1_Witness ==
    /\ Scanned
    /\ Len(list) = 1
    /\ timestamp(1) = 12
    /\ ~IsSKIP(1) /\ simAdjacent(1) = 10 /\ simWide1(1) = 20 /\ simWide2(1) = 10
    /\ isKeyFrame(1)
    /\ output = << SceneRecord(0, 12, "\na dog") >>

---------------------------------------------------------------------------
\* The rows read have non-decreasing timestamps (an assumption on the input
\* that every table of the model meets).
NonDecreasing == \A k \in 1..(Len(list) - 1) : timestamp(k) <= timestamp(k + 1)

\* Record j is the second of two records emitted on one row: the first was
\* rule 2's, this one rule 3's, and both end at the row's timestamp.
SecondOfRow(j) ==
    /\ j > 1
    /\ \E k \in 1..Len(list) :
         /\ Len(Emitted(k)) = 2
         /\ j = Len(After(k).data)
         /\ Rule2Holds(k)
         /\ Rule3Holds(k)

\* C2 as stated: startTime < endTime for every record, except possibly for a
\* leading record whose startTime is 0.
C2_StartBeforeEnd_Original ==
    (Scanned /\ NonDecreasing) =>
      \A j \in 1..Len(output) :
        \/ startTime(output[j]) < endTime(output[j])
        \/ j = 1 /\ startTime(output[j]) = 0

\* C2 (amended): startTime <= endTime for every record, and startTime =
\* endTime only for a leading record starting at 0 or for the second record of
\* a row on which rules 2 and 3 both fire, whose startTime and endTime both
\* equal the endTime of the record before it.
C2_StartBeforeEnd ==
    (Scanned /\ NonDecreasing) =>
      \A j \in 1..Len(output) :
        \/ startTime(output[j]) < endTime(output[j])
        \/ j = 1 /\ startTime(output[j]) = 0
        \/ /\ SecondOfRow(j)
           /\ startTime(output[j]) = endTime(output[j])
           /\ startTime(output[j]) = endTime(output[j - 1])

\* A scan has emitted a zero-length second record and, on other rows, records
\* of positive length.
C2_Witness ==
    /\ Scanned
    /\ Len(output) >= 3
    /\ \E j \in 2..Len(output) : SecondOfRow(j) /\ startTime(output[j]) = endTime(output[j])
    /\ \E j \in 2..Len(output) : ~SecondOfRow(j) /\ startTime(output[j]) < endTime(output[j])

\* C3 as stated: the boundaries are emitted in strictly increasing order.
C3_BoundariesIncrease_Original ==
    (Scanned /\ NonDecreasing) =>
      \A j \in 1..(Len(output) - 1) : endTime(output[j]) < endTime(output[j + 1])

\* C3 (amended): the boundaries are emitted in non-decreasing order, and two
\* records share a boundary only when they are the two records of one row on
\* which rules 2 and 3 both fire.
C3_BoundariesIncrease ==
    (Scanned /\ NonDecreasing) =>
      /\ \A j \in 1..(Len(output) - 1) :
           \/ endTime(output[j]) < endTime(output[j + 1])
           \/ endTime(output[j]) = endTime(output[j + 1]) /\ SecondOfRow(j + 1)
      /\ \A j, m \in 1..Len(output) :
           (j + 1 < m) => endTime(output[j]) < endTime(output[m])

\* Boundaries on different rows and a repeated boundary in one scan.
C3_Witness ==
    /\ Scanned
    /\ \E j \in 1..(Len(output) - 1) : endTime(output[j]) < endTime(output[j + 1])
    /\ \E j \in 1..(Len(output) - 1) : endTime(output[j]) = endTime(output[j + 1])

\* C4 as stated: consecutive boundaries, and the first boundary from time 0,
\* are at least sceneTimeLimit apart.
C4_MinimumGap_Original ==
    (Scanned /\ NonDecreasing) =>
      \A j \in 1..Len(output) :
        endTime(output[j]) - (IF j = 1 THEN 0 ELSE endTime(output[j - 1]))
          >= sceneTimeLimit

\* C4 (amended): consecutive boundaries, and the first boundary from time 0,
\* are at least sceneTimeLimit apart, except that the two boundaries of a row
\* on which rules 2 and 3 both fire coincide.
C4_MinimumGap ==
    (Scanned /\ NonDecreasing) =>
      \A j \in 1..Len(output) :
        \/ endTime(output[j]) - (IF j = 1 THEN 0 ELSE endTime(output[j - 1]))
             >= sceneTimeLimit
        \/ SecondOfRow(j) /\ endTime(output[j]) = endTime(output[j - 1])

\* Two boundaries exactly sceneTimeLimit apart, the later one from rule 3.
C4_Witness ==
    /\ Scanned
    /\ \E j \in 2..Len(output) :
         /\ endTime(output[j]) - endTime(output[j - 1]) = sceneTimeLimit
         /\ \E k \in 1..Len(list) :
              Rule3Holds(k) /\ ~Rule2Holds(k) /\ j = Len(After(k).data)

---------------------------------------------------------------------------
\* The row that emits record j, and whether rule 3 emitted it.
EmitRow(j) ==
    CHOOSE k \in 1..Len(list) : Len(Before(k).data) < j /\ j <= Len(After(k).data)
ByRule3(j) == Rule3Holds(EmitRow(j)) /\ j = Len(After(EmitRow(j)).data)

\* "\n" + description of every key-frame row among rows a..b, in frame order.
RECURSIVE KeyText(_, _)
KeyText(a, b) ==
    IF a > b THEN ""
    ELSE KeyText(a, b - 1) \o (IF isKeyFrame(b) THEN "\n" \o descriptionOf(b) ELSE "")

\* "\n" + description of every key-frame row among rows 1..b whose timestamp
\* lies in [start, end), in frame order.
RECURSIVE KeyTextIn(_, _, _)
KeyTextIn(b, start, end) ==
    IF b = 0 THEN ""
    ELSE KeyTextIn(b - 1, start, end)
           \o (IF isKeyFrame(b) /\ start <= timestamp(b) /\ timestamp(b) < end
               THEN "\n" \o descriptionOf(b) ELSE "")

C6_Rule3Emits ==
    Scanned =>
      /\ \A k \in 1..Len(list) :
           Rule3Holds(k) =>
             /\ Len(Emitted(k)) = (IF Rule2Holds(k) THEN 2 ELSE 1)
             /\ Emitted(k)[Len(Emitted(k))] =
                  (IF Rule2Holds(k)
                   THEN SceneRecord(timestamp(k), timestamp(k), "")
                   ELSE SceneRecord(currentSceneStart(Before(k)), timestamp(k), Pending(k)))
             /\ After(k).description = " "
             /\ currentSceneStart(After(k)) = timestamp(k)
      /\ \A k \in 1..Len(list) :
           ( /\ ~IsSKIP(k)
             /\ Before(k).firstSkip
             /\ timestamp(k) - skipRunStart(Before(k)) < sceneTimeLimit )
           => /\ Len(Emitted(k)) = (IF Rule2Holds(k) THEN 1 ELSE 0)
              /\ After(k).description = (IF Rule2Holds(k) THEN "" ELSE Pending(k))
      /\ ( /\ Len(list) >= 4
           /\ IsSKIP(1) /\ IsSKIP(2) /\ IsSKIP(3) /\ ~IsSKIP(4)
           /\ timestamp(1) = 5 /\ timestamp(4) = 20 )
         => /\ Len(After(4).data) >= 1
            /\ \A j \in 1..Len(After(4).data) : endTime(After(4).data[j]) = 20

\* The scenario of C6, with one record for its boundary.
C6_Witness ==
    /\ Scanned
    /\ Len(list) = 4
    /\ IsSKIP(1) /\ IsSKIP(2) /\ IsSKIP(3) /\ ~IsSKIP(4)
    /\ timestamp(1) = 5 /\ timestamp(4) = 20
    /\ Len(output) = 1
    /\ endTime(output[1]) = 20

\* C7: on a row that satisfies both rules rule 2 fires first and rule 3 then
\* fires on the values rule 2 left: the row emits two records, the second
\* (r.timestamp, r.timestamp, ""), and pendingDescription ends as a single
\* space; no row emits more than two records.
C7_BothRules ==
    Scanned =>
      \A k \in 1..Len(list) :
        /\ Len(Emitted(k)) <= 2
        /\ (Rule2Holds(k) /\ Rule3Holds(k)) =>
             /\ Emitted(k) =
                  << SceneRecord(currentSceneStart(Before(k)), timestamp(k), Pending(k)),
                     SceneRecord(timestamp(k), timestamp(k), "") >>
             /\ After(k).description = " "

\* A row on which both rules fire, with a pending description.
C7_Witness ==
    /\ Scanned
    /\ \E k \in 1..Len(list) :
         Rule2Holds(k) /\ Rule3Holds(k) /\ Pending(k) # "" /\ Len(Emitted(k)) = 2

\* C8: a row with all three similarities below threshold and r.timestamp -
\* currentSceneStart <= sceneTimeLimit gets no record from rule 2, which
\* leaves currentSceneStart and pendingDescription as they were: only rule 3
\* can emit on that row, and it then emits the unchanged values.
C8_Rule2TimeLimit ==
    Scanned =>
      \A k \in 1..Len(list) :
        (AllLow(k) /\ timestamp(k) - currentSceneStart(Before(k)) <= sceneTimeLimit) =>
          IF Rule3Holds(k)
          THEN Emitted(k) =
                 << SceneRecord(currentSceneStart(Before(k)), timestamp(k), Pending(k)) >>
          ELSE /\ Emitted(k) = <<>>
               /\ currentSceneStart(After(k)) = currentSceneStart(Before(k))
               /\ After(k).description = Pending(k)

\* A row with low similarities exactly sceneTimeLimit after the last boundary.
C8_Witness ==
    /\ Scanned
    /\ \E k \in 1..Len(list) :
         /\ AllLow(k)
         /\ currentSceneStart(Before(k)) > 0
         /\ timestamp(k) - currentSceneStart(Before(k)) = sceneTimeLimit
         /\ Emitted(k) = <<>>

\* C9: the startTime values of the records are non-decreasing in emission
\* order.
C9_StartTimesAscend ==
    (Scanned /\ NonDecreasing) =>
      \A j \in 1..(Len(output) - 1) : startTime(output[j]) <= startTime(output[j + 1])

\* Three records with increasing start times.
C9_Witness ==
    /\ Scanned
    /\ Len(output) >= 3
    /\ startTime(output[1]) < startTime(output[2])
    /\ startTime(output[2]) < startTime(output[Len(output)])

\* The number of times a rule's condition holds on rows 1..k.
RECURSIVE Firings(_)
Firings(k) ==
    IF k = 0 THEN 0
    ELSE Firings(k - 1) + (IF Rule2Holds(k) THEN 1 ELSE 0)
                        + (IF Rule3Holds(k) THEN 1 ELSE 0)

\* C10: after the last row nothing more is emitted: what is written is what
\* the loop has emitted, one record per rule firing (none when no rule
\* fired), every record ends at or before the final currentSceneStart, and
\* the final pendingDescription is in no record of its own.
C10_TailDrop ==
    Scanned =>
      /\ Len(scan) = Len(list) + 1
      /\ output = scan[Len(list) + 1].data
      /\ Len(output) = Firings(Len(list))
      /\ \A j \in 1..Len(output) :
           endTime(output[j]) <= currentSceneStart(scan[Len(scan)])

\* A scan that ends with key-frame text pending after its last boundary, and
\* rows after that boundary.
C10_Witness ==
    /\ Scanned
    /\ Len(output) >= 1
    /\ Len(list) >= 1
    /\ currentSceneStart(scan[Len(scan)]) < timestamp(Len(list))
    /\ Len(scan[Len(scan)].description) > 1

---------------------------------------------------------------------------
(* Vocabulary of the properties of the similarity script: frame i (from    *)
(* 0), its feature vector, and the enriched row written for it.            *)

Computed == simpc = "done"
FrameCount == Len(frames)
features(i) == ParseFrame(frames[i + 1]).features
EnrichedRange == { i \in 0..(FrameCount - 1) : 2 <= i /\ i <= FrameCount - 2 }
Enriched(i) == outfile[i - 1]

\* cosineSimilarity of the vectors of frames a and b as it stands in the
\* table: a number in hundredths, or the text NaN when it is undefined.
cosineSimilarity(a, b) == WriteCell(cosine(features(a), features(b)))
Undefined_Similarity(a, b) == cosine(features(a), features(b)) = NaN

\* C13: a table of n frames gives exactly one enriched row for each i from 2
\* to n-2, in increasing i without gaps, and no error; row i carries
\* frameIndex, timestamp, isKeyFrame and description of frame i and the
\* simAdjacent of features[i] and features[i+1].
C13_OneRowPerInteriorFrame ==
    /\ simpc # "error"
    /\ Computed =>
         /\ Len(outfile) = Cardinality(EnrichedRange)
         /\ \A i \in EnrichedRange :
              /\ Enriched(i)[1] = frames[i + 1][1]
              /\ Enriched(i)[2] = frames[i + 1][2]
              /\ Enriched(i)[3] = Num(i)
              /\ Enriched(i)[4] = Num(i + 1)
              /\ Enriched(i)[8] = frames[i + 1][3]
              /\ Enriched(i)[9] = frames[i + 1][4]
              /\ Enriched(i)[5] =
                   (IF Undefined_Similarity(i, i + 1) THEN Str("SKIP")
                    ELSE cosineSimilarity(i, i + 1))

\* Six frames have been turned into the three rows 2, 3 and 4, with
\* different adjacent similarities.
C13_Witness ==
    /\ Computed
    /\ FrameCount = 6
    /\ Len(outfile) = 3
    /\ Enriched(2)[5] = Num(100)
    /\ Enriched(3)[5] = Num(70)
    /\ Enriched(4)[5] = Num(0)

\* C14 as stated: fewer than 5 frames give an empty enriched table and no
\* error.
C14_ShortTables_Original ==
    (FrameCount < 5) =>
      /\ simpc # "error"
      /\ Computed => outfile = <<>>

\* C14 (amended): fewer than 4 frames (n in 0..3) give an empty enriched
\* table and no error; 4 frames give the one row i = 2.
C14_ShortTables ==
    /\ (FrameCount < 4) =>
         /\ simpc # "error"
         /\ Computed => outfile = <<>>
    /\ (FrameCount = 4 /\ Computed) =>
         /\ Len(outfile) = 1
         /\ Enriched(2)[3] = Num(2)

\* Tables of three frames and of no frame have been processed.
C14_Witness == Computed /\ FrameCount = 3 /\ outfile = <<>>

\* The rows from which the wide windows do not run past the table.
HasWideWindows(i) == i < FrameCount - 3

\* C15: no valid table raises an error; when i < n-3 the row's simWide1 is
\* the similarity of features[i-1] and features[i+2] and its simWide2 that
\* of features[i-2] and features[i+3]; otherwise both are 0.0.
C15_WideWindows ==
    /\ simpc # "error"
    /\ Computed =>
         \A i \in EnrichedRange :
           IF HasWideWindows(i)
           THEN /\ Enriched(i)[6] = cosineSimilarity(i - 1, i + 2)
                /\ Enriched(i)[7] = cosineSimilarity(i - 2, i + 3)
           ELSE /\ Enriched(i)[6] = Num(0)
                /\ Enriched(i)[7] = Num(0)

\* Row 2 of six frames carries two computed wide similarities that differ,
\* and the rows 3 and 4 carry 0.0.
C15_Witness ==
    /\ Computed
    /\ FrameCount = 6
    /\ Enriched(2)[6] = Num(100)
    /\ Enriched(2)[7] = Num(70)
    /\ Enriched(3)[6] = Num(0)
    /\ Enriched(4)[7] = Num(0)

\* The last rows of the enriched table, counted from its end.
LastEnriched(count) ==
    { i \in EnrichedRange : i > FrameCount - 2 - count }

\* C16 as stated: the last three enriched rows (i = n-4, n-3, n-2) carry
\* simWide1 = simWide2 = 0.0.
C16_LastRowsZero_Original ==
    Computed =>
      \A i \in LastEnriched(3) :
        /\ Enriched(i)[6] = Num(0)
        /\ Enriched(i)[7] = Num(0)

\* C16 (amended): the last two enriched rows (i = n-3, n-2) carry
\* simWide1 = simWide2 = 0.0 and no error is raised for them; the row
\* i = n-4 before them carries the computed wide similarities.
C16_LastRowsZero ==
    /\ simpc # "error"
    /\ Computed =>
         /\ \A i \in LastEnriched(2) :
              /\ Enriched(i)[6] = Num(0)
              /\ Enriched(i)[7] = Num(0)
         /\ \A i \in LastEnriched(3) \ LastEnriched(2) :
              /\ Enriched(i)[6] = cosineSimilarity(i - 1, i + 2)
              /\ Enriched(i)[7] = cosineSimilarity(i - 2, i + 3)

\* Of the three rows of six frames the last two carry 0.0 twice and the row
\* before them a wide similarity that is not 0.
C16_Witness ==
    /\ Computed
    /\ FrameCount = 6
    /\ Len(outfile) = 3
    /\ Enriched(3)[6] = Num(0) /\ Enriched(3)[7] = Num(0)
    /\ Enriched(4)[6] = Num(0) /\ Enriched(4)[7] = Num(0)
    /\ Enriched(2)[6] = Num(70)

\* C17: a row whose adjacent similarity is undefined (a zero-norm vector)
\* carries the sentinel SKIP, never NaN, and the next rows are still
\* written; every other row's simAdjacent is a number.
C17_SkipSentinel ==
    Computed =>
      /\ Len(outfile) = Cardinality(EnrichedRange)
      /\ \A i \in EnrichedRange :
           /\ Enriched(i)[5] # Str("NaN")
           /\ Enriched(i)[5] # NaN
           /\ IF Undefined_Similarity(i, i + 1)
              THEN Enriched(i)[5] = Str("SKIP")
              ELSE IsNum(Enriched(i)[5])

\* A row with a zero-norm vector carries SKIP and the row after it a number.
C17_Witness ==
    /\ Computed
    /\ FrameCount = 6
    /\ Enriched(2)[5] = Str("SKIP")
    /\ Enriched(3)[5] = Str("SKIP")
    /\ Enriched(4)[5] = Num(70)

\* Some frame's feature vector differs in length from another's.
MalformedFrames ==
    \E a, b \in 0..(FrameCount - 1) : Len(features(a)) # Len(features(b))

\* C18: a frame whose feature vector length differs from the others, at any
\* index and for any n, makes the run abort with an error, and no output
\* table is written.
C18_MalformedVectorAborts ==
    (MalformedFrames /\ simpc # "read") =>
      /\ simpc = "error"
      /\ outfile = <<>>

\* Some row of the segmenter's table has fewer than 9 cells.
MalformedRows == \E k \in DOMAIN results : Len(results[k]) < 9

\* C19: a row of the segmenter's table with fewer than 9 cells aborts the
\* run with an error, and no scene table is written.
C19_MalformedRowAborts == MalformedRows => pc # "done"

\* C12: a second run of SceneSegmentation on the same rows with the same
\* sceneTimeLimit and threshold returns exactly the records the first run
\* returned; nothing of the first run leaks into the second.
C12_Idempotent == (pc = "again") => data = output

\* The key-frame flag and the description of row k as they stand in the
\* input table.
inputIsKeyFrame(k) == Cell(results[k], 7) = Str("True")
inputDescription(k) == Cell(results[k], 8).s

\* pendingDescription after the accumulation step of row k: "\n" and the
\* row's description appended for a key-frame row, nothing for another row.
Accumulated(k) ==
    Before(k).description
      \o (IF inputIsKeyFrame(k) THEN "\n" \o inputDescription(k) ELSE "")

\* C20: for every row whose isKeyFrame is the text "True", "\n" + description
\* is appended to pendingDescription before rules 2 and 3 are evaluated and
\* whichever rule fires, so that a boundary row's own description is in the
\* record that ends at that row; a row with another flag appends nothing.
C20_AccumulateBeforeRules ==
    Scanned =>
      \A k \in 1..Len(list) :
        IF Emitted(k) # <<>>
        THEN Emitted(k)[1][3] = Accumulated(k)
        ELSE After(k).description = Accumulated(k)

\* The frames of the first table that are key frames, and "\n" + description
\* of those of them that are in S, in frame order.
InputKeyFrames == { f \in 0..(FrameCount - 1) : frames[f + 1][3] = Str("True") }
RECURSIVE JoinFrames(_, _)
JoinFrames(S, f) ==
    IF f < 0 THEN ""
    ELSE JoinFrames(S, f - 1)
           \o (IF f \in S THEN "\n" \o frames[f + 1][4].s ELSE "")

\* The description of frame f appears in the text: the text is the join of
\* the descriptions of some key frames, frame f among them.
Mentions(text, f) ==
    \E S \in SUBSET InputKeyFrames :
      /\ f \in S
      /\ text \in { JoinFrames(S, FrameCount - 1),
                    " " \o JoinFrames(S, FrameCount - 1) }

LastBoundary == endTime(output[Len(output)])

\* C11: across the two stages, the description of every key frame of the
\* input whose timestamp is at or before the last emitted boundary appears
\* in the description of some emitted record.
C11_NoSilentLoss ==
    (Computed /\ Scanned /\ output # <<>>) =>
      \A f \in InputKeyFrames :
        (frames[f + 1][2].n <= LastBoundary) =>
          \E j \in 1..Len(output) : Mentions(output[j][3], f)

---------------------------------------------------------------------------
\* What row k leaves pending of the description: the text of the first
\* record it emits, or pendingDescription after it when it emits none.
AfterAccumulation(k) ==
    IF Emitted(k) # <<>> THEN Emitted(k)[1][3] ELSE After(k).description

\* C21: a key-frame row whose description cell is empty is still joined: it
\* adds exactly a newline followed by the empty text to pendingDescription.
C21_EmptyDescriptionJoined ==
    Scanned =>
      \A k \in 1..Len(list) :
        (inputIsKeyFrame(k) /\ inputDescription(k) = "") =>
          AfterAccumulation(k) = Before(k).description \o "\n"

\* The first row of the maximal run of consecutive SKIP rows that ends at
\* the SKIP row k.
RECURSIVE RunStart(_)
RunStart(k) == IF k > 1 /\ IsSKIP(k - 1) THEN RunStart(k - 1) ELSE k

\* C22: a SKIP row sets inSkipRun and takes its timestamp as skipRunStart
\* only when inSkipRun is false; a SKIP row inside a run leaves skipRunStart
\* as it is, so that after every SKIP row skipRunStart is the timestamp of
\* the first row of the current maximal run of SKIP rows.
C22_SkipDetection ==
    Scanned =>
      \A k \in 1..Len(list) :
        IsSKIP(k) =>
          /\ After(k).firstSkip
          /\ IF Before(k).firstSkip
             THEN After(k).skiptimestamp = Before(k).skiptimestamp
             ELSE skipRunStart(After(k)) = timestamp(k)
          /\ skipRunStart(After(k)) = timestamp(RunStart(k))

\* A run of three SKIP rows at the times 5, 12 and 20 after a row that is
\* not SKIP: skipRunStart is still 5 after the third.
C22_Witness ==
    /\ Scanned
    /\ Len(list) = 4
    /\ ~IsSKIP(1) /\ IsSKIP(2) /\ IsSKIP(3) /\ IsSKIP(4)
    /\ timestamp(2) = 5 /\ timestamp(3) = 12 /\ timestamp(4) = 20
    /\ skipRunStart(After(4)) = 5

\* C23: after a row that is not SKIP inSkipRun is false, whether the time
\* check of rule 3 passed or not; so after every row inSkipRun is true
\* exactly when the row is SKIP, and rule 3 fires only on the row that
\* directly follows a skip run, at least sceneTimeLimit after its start: a
\* shorter run contributes to no later boundary.
C23_SkipRunCleared ==
    Scanned =>
      \A k \in 1..Len(list) :
        /\ After(k).firstSkip <=> IsSKIP(k)
        /\ (Rule3Holds(k) \/ (Len(Emitted(k)) > 0 /\ ~Rule2Holds(k))) =>
             /\ k > 1
             /\ IsSKIP(k - 1)
             /\ timestamp(k) - timestamp(RunStart(k - 1)) >= sceneTimeLimit

\* A skip run that starts at 5 and is ended at 12, too early for rule 3, by
\* a row that emits nothing; the two rows after it, at 20 and 30, are not
\* SKIP and emit nothing either.
C23_Witness ==
    /\ Scanned
    /\ Len(list) = 4
    /\ IsSKIP(1) /\ ~IsSKIP(2) /\ ~IsSKIP(3) /\ ~IsSKIP(4)
    /\ timestamp(1) = 5 /\ timestamp(2) = 12
    /\ timestamp(3) = 20 /\ timestamp(4) = 30
    /\ Before(2).firstSkip /\ ~After(2).firstSkip
    /\ output = <<>>

\* C24: when no row is SKIP and every simAdjacent is at or above the
\* threshold, no record is emitted, whatever the timestamps and the wide
\* similarities.
C24_NoLowSimilarityNoRecord ==
    (Scanned /\ \A k \in 1..Len(list) : ~IsSKIP(k) /\ simAdjacent(k) >= threshold)
      => /\ output = <<>>
         /\ \A k \in 1..Len(list) : After(k).data = <<>>

\* Four rows (of seven frames) with simAdjacent equal to the threshold and
\* both wide similarities below it, more than sceneTimeLimit apart.
C24_Witness ==
    /\ Scanned
    /\ Len(list) = 4
    /\ \A k \in 1..4 : ~IsSKIP(k) /\ simAdjacent(k) = threshold /\ simWide1(k) < threshold
                       /\ simWide2(k) < threshold
    /\ timestamp(1) = 12 /\ timestamp(4) = 30
    /\ output = <<>>

\* The endTime of the most recently emitted record in a state of the scan,
\* or 0 when none has been emitted.
LastEnd(st) == IF st.data = <<>> THEN 0 ELSE endTime(st.data[Len(st.data)])

\* C25: at every point of the scan currentSceneStart is the endTime of the
\* most recently emitted record, or 0 if there is none; the first record
\* starts at 0 and every later record starts at the endTime of the record
\* before it.
C25_Chaining ==
    Scanned =>
      /\ \A p \in 1..Len(scan) : currentSceneStart(scan[p]) = LastEnd(scan[p])
      /\ \A j \in 1..Len(output) :
           startTime(output[j]) = (IF j = 1 THEN 0 ELSE endTime(output[j - 1]))

\* Three records that tile the timeline: one by rule 2 at 12, and after a
\* skip run one by rule 2 and one by rule 3 at 30.
C25_Witness ==
    /\ Scanned
    /\ Len(output) = 3
    /\ startTime(output[1]) = 0 /\ endTime(output[1]) = 12
    /\ startTime(output[2]) = 12 /\ endTime(output[2]) = 30
    /\ startTime(output[3]) = 30 /\ endTime(output[3]) = 30
    /\ \E k \in 1..Len(list) : Rule3Holds(k) /\ Rule2Holds(k)

\* C26: a SKIP row emits no record and leaves currentSceneStart and the
\* emitted records as they are; pendingDescription changes only by the
\* key-frame append of the row.  Every boundary is the timestamp of a row
\* that is not SKIP.
C26_SkipRowFrame ==
    Scanned =>
      /\ \A k \in 1..Len(list) :
           IsSKIP(k) =>
             /\ Emitted(k) = <<>>
             /\ After(k).data = Before(k).data
             /\ After(k).currentSceneTimeStamp = Before(k).currentSceneTimeStamp
             /\ After(k).description = Pending(k)
      /\ \A j \in 1..Len(output) :
           \E k \in 1..Len(list) :
             /\ ~IsSKIP(k)
             /\ endTime(output[j]) = timestamp(k)
             /\ Len(Before(k).data) < j /\ j <= Len(After(k).data)

\* A record has been emitted, and after it two SKIP rows, a key frame and
\* then one 15 s or more into the skip run, have left it as it was.
C26_Witness ==
    /\ Scanned
    /\ Len(list) = 4
    /\ Len(output) = 1
    /\ Len(After(1).data) = 1
    /\ IsSKIP(2) /\ IsSKIP(3) /\ IsSKIP(4)
    /\ isKeyFrame(3)
    /\ timestamp(2) = 12 /\ timestamp(4) = 30
    /\ After(3).description # Before(3).description

---------------------------------------------------------------------------
\* C27: for every n and every index i the loop of the similarity script
\* visits, the vectors it reads (i and i+1, and when i < n-3 also i-1, i+2,
\* i-2 and i+3) have indices within 0..n-1: no undefined vector is passed
\* to the similarity function, and no valid table ends in its exception.
C27_IndexSafety ==
    /\ \A i \in LoopIndices(FrameCount) :
         /\ 0 <= i /\ i + 1 <= FrameCount - 1
         /\ WideComputed(i, FrameCount) =>
              /\ 0 <= i - 2
              /\ i + 3 <= FrameCount - 1
    /\ simpc # "error"
    /\ Computed =>
         \A k \in DOMAIN outfile : \A j \in {5, 6, 7} : outfile[k][j] # Thrown

\* Six frames: at i = 2 the loop has read the vectors 0 and 5, the first and
\* the last of the table, and at i = 4 the vectors 4 and 5.
C27_Witness ==
    /\ Computed
    /\ FrameCount = 6
    /\ LoopIndices(FrameCount) = {2, 3, 4}
    /\ Enriched(2)[7] = cosineSimilarity(0, 5)
    /\ Enriched(2)[7] = Num(70)
    /\ Enriched(4)[5] = cosineSimilarity(4, 5)
    /\ Enriched(4)[5] = Num(100)

\* Rule 2 has emitted a record on row k of the scan.
Rule2Fired(k) ==
    LowSimilarityRule(Accumulate(Before(k), list[k]), list[k]).data # Before(k).data

\* The rows of the scan that come from the last two enriched rows.
LastTwoRows == { k \in 1..Len(list) : k >= Len(list) - 1 }

\* C28: in the pipeline the last two enriched rows carry simWide1 =
\* simWide2 = 0.0, so for any threshold above 0 the wide-window condition of
\* rule 2 holds on them, and rule 2 fires on them exactly when simAdjacent
\* is below the threshold and the time check passes, whatever the vectors
\* of the neighbouring frames.
C28_LastRowsRule2 ==
    (Computed /\ Scanned) =>
      \A k \in LastTwoRows :
        /\ Cell(list[k], 5) = Num(0)
        /\ Cell(list[k], 6) = Num(0)
        /\ \A thr \in 1..100 :
             averagecheck(Cell(list[k], 5), Cell(list[k], 6), Num(thr))
        /\ Rule2Fired(k) <=>
             /\ ~IsSKIP(k)
             /\ Lt(Cell(list[k], 4), Num(threshold))
             /\ timestamp(k) - currentSceneStart(Before(k)) > sceneTimeLimit

\* Six frames: rule 2 fires at 18 on the row of frame 3 = n-3, although the
\* vectors of the frames 2 and 5 of its first wide window are the same.
C28_Witness ==
    /\ Computed /\ Scanned
    /\ FrameCount = 6
    /\ Len(list) = 3
    /\ cosineSimilarity(2, 5) = Num(100)
    /\ Rule2Fired(2)
    /\ timestamp(2) = 18
    /\ Len(output) >= 1
    /\ output[1][1] = Num(0) /\ output[1][2] = Num(18)

\* C29: only simAdjacent is turned into the sentinel: an undefined simWide1
\* or simWide2 is written as it is, and in the segmenter a row with an
\* undefined wide similarity never fires rule 2 and neither starts nor ends
\* a skip run on that account.
C29_WideNotSentinel ==
    /\ Computed =>
         \A i \in EnrichedRange :
           HasWideWindows(i) =>
             /\ Undefined_Similarity(i - 1, i + 2) => Enriched(i)[6] = Str("NaN")
             /\ Undefined_Similarity(i - 2, i + 3) => Enriched(i)[7] = Str("NaN")
    /\ (Computed /\ Scanned) =>
         \A k \in 1..Len(list) :
           (Cell(list[k], 5) = NaN \/ Cell(list[k], 6) = NaN) =>
             /\ ~Rule2Fired(k)
             /\ After(k).firstSkip <=> IsSKIP(k)
             /\ After(k).firstSkip => After(k).skiptimestamp = Cell(list[k], 1)
                                      \/ After(k).skiptimestamp = Before(k).skiptimestamp
             /\ Emitted(k) # <<>> => Rule3Holds(k)

\* Six frames with a zero vector at frame 1: the row of frame 2, at 12 with
\* a low simAdjacent and a low simWide2, carries an undefined simWide1 and
\* has emitted nothing.
C29_Witness ==
    /\ Computed /\ Scanned
    /\ FrameCount = 6
    /\ Enriched(2)[6] = Str("NaN")
    /\ Cell(list[1], 5) = NaN
    /\ Cell(list[1], 4) = Num(0)
    /\ Cell(list[1], 6) = Num(0)
    /\ After(1).data = <<>>

====
